---- MODULE Spec2Model ----
(***************************************************************************)
(* Model of strategy_app.py: the valuation and signal engine of the        *)
(* watchlist dashboard.                                                     *)
(*                                                                          *)
(* Number representation.  The program computes in binary floating point;  *)
(* the model computes in integers:                                          *)
(*   - money (prices, fair values, EPS) is in cents;                        *)
(*   - rates (WACC, growth rates, drawdowns, corrections) are in basis      *)
(*     points, 1/10000, so 0.0989 is 989;                                   *)
(*   - the margin of safety is the slider's whole percent (the code divides *)
(*     the slider value by 100), and comparisons against                    *)
(*     fv * (1 -/+ mos_pct) are cross-multiplied by 100;                    *)
(*   - EUR amounts are USD amounts over the common positive divisor         *)
(*     eur_usd, which cancels in every comparison and in the upside ratio,  *)
(*     so the model keeps the USD numerators;                               *)
(*   - the upside percentage is kept as the exact fraction num/den.         *)
(* Signal labels are the program's labels without the leading emoji.        *)
(***************************************************************************)
EXTENDS Integers, Sequences, FiniteSets, TLC

VARIABLES
    cache,      \* st.cache_data store of get_market_data: ticker -> entry
    now,        \* wall clock, seconds
    overrides,  \* table fair_values of the database: ticker -> row
    provider,   \* what the market data provider does for each ticker if called
    run,        \* what the latest script run computed and displayed
    contacted,  \* tickers for which the latest run called the provider
    lastFetch,  \* history: time of the last provider call since the last clear
    lastOp,     \* the handler that produced the current state
    sig,        \* generate_signal: inputs and the results of its calls
    dcf,        \* calculate_dcf_fair_value_eps: inputs and result
    tech        \* calculate_technical_metrics: inputs and result

vars == <<cache, now, overrides, provider, run, contacted, lastFetch, lastOp, sig, dcf, tech>>

----------------------------------------------------------------------------
(* Program constants *)

CACHE_TTL == 3600
RSI_LENGTH == 14
EMA_LENGTH == 200
WACC == 989
TERMINAL_GROWTH == 250

\* VOLUME_THRESHOLD_UP = 1.5 and VOLUME_THRESHOLD_DOWN = 0.8, in tenths
VOLUME_THRESHOLD_UP == 15
VOLUME_THRESHOLD_DOWN == 8

\* DRAWDOWN_THRESHOLD = -0.10, in basis points
DRAWDOWN_THRESHOLD == -1000

\* one, in basis points
BP == 100 * 100

----------------------------------------------------------------------------
(* Python values *)

\* A value read from a mapping: a number, None, or a string where a number
\* is expected (a malformed field).
Num(n) == [k |-> "num", v |-> n]
None == [k |-> "none", v |-> 0]
Str == [k |-> "str", v |-> 0]

\* Python truthiness of such a value: None and 0 are falsy, a non-empty
\* string is truthy.
Truthy(x) == \/ x.k = "str"
             \/ x.k = "num" /\ x.v # 0

\* a or b
Or(a, b) == IF Truthy(a) THEN a ELSE b

\* dict.get(key, default)
DictGet(d, key, default) == IF key \in DOMAIN d THEN d[key] ELSE default

\* An exception leaving a function.
Raise(e) == [exc |-> e]
Raised(r) == "exc" \in DOMAIN r

Max(a, b) == IF a >= b THEN a ELSE b
Min(a, b) == IF a <= b THEN a ELSE b

----------------------------------------------------------------------------
(* generate_signal *)

GenerateSignal_SwappedLimits(price_eur, fv_eur, rsi, mos_pct) ==
    IF price_eur * 100 <= fv_eur * (100 + mos_pct) /\ rsi < 40
    THEN [signal |-> "KAUF", rank |-> 1]
    ELSE IF price_eur * 100 <= fv_eur * (100 - mos_pct)
    THEN [signal |-> "BEOBACHTEN", rank |-> 2]
    ELSE [signal |-> "WARTEN", rank |-> 3]

GenerateSignal_StrictBuy(price_eur, fv_eur, rsi, mos_pct) ==
    IF price_eur * 100 < fv_eur * (100 - mos_pct) /\ rsi < 40
    THEN [signal |-> "KAUF", rank |-> 1]
    ELSE IF price_eur * 100 <= fv_eur * (100 + mos_pct)
    THEN [signal |-> "BEOBACHTEN", rank |-> 2]
    ELSE [signal |-> "WARTEN", rank |-> 3]

\* buy_limit = fv_eur * (1 - mos_pct), watch_limit = fv_eur * (1 + mos_pct);
\* mos_pct is in whole percent, both sides of each comparison times 100.
GenerateSignal(price_eur, fv_eur, rsi, mos_pct) ==
    IF price_eur * 100 <= fv_eur * (100 - mos_pct) /\ rsi < 40
    THEN [signal |-> "KAUF", rank |-> 1]
    ELSE IF price_eur * 100 <= fv_eur * (100 + mos_pct)
    THEN [signal |-> "BEOBACHTEN", rank |-> 2]
    ELSE [signal |-> "WARTEN", rank |-> 3]

----------------------------------------------------------------------------
(* calculate_dcf_fair_value_eps *)

\* The state of the loop of lines 115-118 after a year: cg is
\* (1 + growth_rate) ** year, cw is (1 + WACC) ** year and sum is pv_10y / eps,
\* all in basis points.
Projected(cg, cw, sum) == [cg |-> cg, cw |-> cw, sum |-> sum + (cg * BP) \div cw]

ProjectYear(acc, growth_rate) ==
    Projected((acc.cg * (BP + growth_rate)) \div BP,
              (acc.cw * (BP + WACC)) \div BP,
              acc.sum)

\* the loop over range(1, year + 1)
RECURSIVE Projection(_, _)
Projection(growth_rate, year) ==
    IF year = 0 THEN [cg |-> BP, cw |-> BP, sum |-> 0]
    ELSE ProjectYear(Projection(growth_rate, year - 1), growth_rate)

\* (1 + TERMINAL_GROWTH) / (WACC - TERMINAL_GROWTH), in basis points
TerminalMultiple == ((BP + TERMINAL_GROWTH) * BP) \div (WACC - TERMINAL_GROWTH)

\* The branch condition of line 109.
UseFallback(growth_rate) == WACC <= growth_rate

\* eps in cents, growth_rate in basis points; amounts of the result in cents.
\* The try block of lines 108-138 cannot raise on numbers here: the only
\* division is by WACC - TERMINAL_GROWTH, a non-zero constant.
\* lines 110-111
DcfFallback(fv) ==
    [fv |-> fv, pv_10y |-> (fv * 7) \div 10, pv_terminal |-> (fv * 3) \div 10,
     method |-> "Fallback"]

\* lines 125-135
DcfResult(pv_10y, pv_terminal, eps_year10) ==
    [fv |-> pv_10y + pv_terminal,
     pv_10y |-> pv_10y,
     pv_terminal |-> pv_terminal,
     eps_year10 |-> eps_year10,
     terminal_multiple |-> TerminalMultiple,
     error |-> FALSE,
     method |-> "DCF 10-Year EPS + Terminal"]

\* lines 113-125 for a projection over ten years
DcfProjected(eps, p) ==
    DcfResult(
        \* pv_10y
        (eps * p.sum) \div BP,
        \* pv_terminal = eps_year10 * terminal_multiple / (1 + WACC) ** 10
        (eps * ((((p.cg * BP) \div p.cw) * TerminalMultiple) \div BP)) \div BP,
        \* eps_year10
        (eps * p.cg) \div BP)

CalculateDcfFairValueEps(eps, growth_rate) ==
    IF eps <= 0
    THEN [fv |-> 0, pv_10y |-> 0, pv_terminal |-> 0, error |-> TRUE]
    ELSE IF UseFallback(growth_rate)
    THEN DcfFallback(eps * 35)
    ELSE DcfProjected(eps, Projection(growth_rate, 10))

----------------------------------------------------------------------------
(* Price history *)

\* hist, the DataFrame of tk.history(period="max"), is run-length encoded:
\* rows is a sequence of segments, each standing for n consecutive equal
\* rows with the given High, Close and Volume.  rsi and ema200 are the last
\* values pandas_ta computes from the Close column (the library is not part
\* of the repository; its results come with the series).

RECURSIVE HistLen(_)
HistLen(rows) ==
    IF rows = <<>> THEN 0 ELSE rows[1].n + HistLen(Tail(rows))

\* hist['High'].max()
RECURSIVE HighMax(_)
HighMax(rows) ==
    IF Len(rows) = 1 THEN rows[1].High
    ELSE Max(rows[1].High, HighMax(Tail(rows)))

\* hist['Close'].iloc[-1]
LastClose(rows) == rows[Len(rows)].Close

\* hist['Close'].cummax() at segment i
RECURSIVE RunningMax(_, _)
RunningMax(rows, i) ==
    IF i = 1 THEN rows[1].Close
    ELSE Max(RunningMax(rows, i - 1), rows[i].Close)

\* (Close - running_max) / running_max at segment i, in basis points
Drawdown(rows, i) ==
    ((rows[i].Close - RunningMax(rows, i)) * BP) \div RunningMax(rows, i)

\* the segments with drawdown < DRAWDOWN_THRESHOLD
Significant(rows) ==
    {i \in 1..Len(rows) : Drawdown(rows, i) < DRAWDOWN_THRESHOLD}

RECURSIVE SumOver(_, _, _)
SumOver(rows, S, weighted) ==
    IF S = {} THEN 0
    ELSE LET i == CHOOSE j \in S : TRUE
         IN  (IF weighted THEN rows[i].n * Drawdown(rows, i) ELSE rows[i].n)
             + SumOver(rows, S \ {i}, weighted)

\* significant_drawdowns.mean() * 100, in hundredths of a percent
MeanOver(rows, S) ==
    IF S = {} THEN 0
    ELSE SumOver(rows, S, TRUE) \div SumOver(rows, S, FALSE)

CalculateAvgDrawdown(hist) == MeanOver(hist.rows, Significant(hist.rows))

TailVolumeAdd(rest, take, volume) ==
    [sum |-> take * volume + rest.sum, cnt |-> take + rest.cnt]

\* the sum and the count of hist['Volume'].tail(k)
RECURSIVE TailVolume(_, _)
TailVolume(rows, k) ==
    IF rows = <<>> \/ k = 0 THEN [sum |-> 0, cnt |-> 0]
    ELSE TailVolumeAdd(
             TailVolume(SubSeq(rows, 1, Len(rows) - 1),
                        k - Min(rows[Len(rows)].n, k)),
             Min(rows[Len(rows)].n, k), rows[Len(rows)].Volume)

----------------------------------------------------------------------------
(* calculate_technical_metrics *)

\* line 150
LongTrendAvailable(hist) == HistLen(hist.rows) > EMA_LENGTH

\* price_usd in cents.  ta.rsi returns None for a series shorter than its
\* length, and .iloc on None raises.
\* lines 150-156
Trend(long, ema200, price_usd) ==
    IF long
    THEN [trend |-> IF price_usd > ema200 THEN "Bullish" ELSE "Bearish",
          ema200 |-> Num(ema200)]
    ELSE [trend |-> "N/A", ema200 |-> None]

\* lines 158-165; vol_ma is tail.sum / tail.cnt, the thresholds are in tenths
VolumeLabel(vol_now, tail) ==
    IF vol_now * tail.cnt * 10 > tail.sum * VOLUME_THRESHOLD_UP THEN "BUY Vol"
    ELSE IF vol_now * tail.cnt * 10 < tail.sum * VOLUME_THRESHOLD_DOWN
    THEN "SELL Vol"
    ELSE "Normal"

Metrics(rsi, t, volume, ath, price_usd, avg_dd) ==
    [rsi |-> rsi, trend |-> t.trend, ema200 |-> t.ema200, volume |-> volume,
     ath |-> ath,
     \* line 168, in hundredths of a percent
     corr_ath |-> ((price_usd - ath) * BP) \div ath,
     avg_dd |-> avg_dd]

CalculateTechnicalMetrics(hist, price_usd) ==
    IF HistLen(hist.rows) < RSI_LENGTH THEN Raise("AttributeError")
    ELSE Metrics(hist.rsi,
                 Trend(LongTrendAvailable(hist), hist.ema200, price_usd),
                 VolumeLabel(hist.rows[Len(hist.rows)].Volume,
                             TailVolume(hist.rows, 20)),
                 HighMax(hist.rows),
                 price_usd,
                 CalculateAvgDrawdown(hist))

----------------------------------------------------------------------------
(* Bounds and input catalogues *)

\* number of tickers of the watchlist
NumTickers == 2

\* the clock advances in steps of TickSeconds, up to MaxTicks steps
MaxTicks == 3
TickSeconds == 1800

\* get_watchlist returns the tickers sorted and without duplicates; a ticker
\* is named by its position in that list.  The watchlist is not empty (an
\* empty one stops the script at line 231 before anything is evaluated).
Tickers == 1..NumTickers

\* the slider's value (1..30) and the growth_map's values
MosChoices == {10, 15}
GrowthChoices == {800, 1000, 1200}

Seg(n, high, close, volume) ==
    [n |-> n, High |-> high, Close |-> close, Volume |-> volume]

\* a year of prices with a 20 % dip: ATH 100.00, last close 90.00
HistYear == [rows |-> <<Seg(150, 10000, 9800, 10), Seg(40, 8200, 8000, 30),
                        Seg(60, 9200, 9000, 10)>>,
             rsi |-> 35, ema200 |-> 9100]
\* the same series with a neutral RSI
HistNeutral == [HistYear EXCEPT !.rsi = 55]
\* ten rows only
HistShort == [rows |-> <<Seg(10, 10000, 9000, 10)>>, rsi |-> 35, ema200 |-> 9000]

Info(trailing, forward, price) ==
    [trailingEps |-> trailing, forwardEps |-> forward, currentPrice |-> price]

Ok(hist, info) == [kind |-> "ok", hist |-> hist, info |-> info]

\* What the market data provider does when it is called: it raises, it
\* returns an empty history, or it returns a history and fundamentals.
ProviderError == [kind |-> "error"]
ProviderEmpty == [kind |-> "empty"]
SnapGood == Ok(HistYear, Info(Num(500), Num(600), Num(8000)))
SnapAboveAth == Ok(HistNeutral, Info(None, Num(400), Num(11000)))
SnapZeroEps == Ok(HistNeutral, Info(Num(0), None, None))
SnapNegativeEps == Ok(HistYear, Info(Num(-200), Num(300), Num(8000)))
SnapMalformedEps == Ok(HistYear, Info(Str, None, Num(8000)))
SnapShortHistory == Ok(HistShort, Info(Num(500), None, None))

Responses == {ProviderError, ProviderEmpty, SnapGood, SnapAboveAth,
              SnapZeroEps, SnapNegativeEps, SnapMalformedEps,
              SnapShortHistory}
CacheResponses == {ProviderError, ProviderEmpty, SnapGood}

\* A row of table fair_values, or no row.
NoRow == [k |-> "norow"]
Row(value) == [k |-> "row", data |-> [fair_value_usd |-> value]]

\* An instrument of the watchlist: what the provider answers for it and what
\* table fair_values holds for it.
Instrument(resp, row) == [resp |-> resp, row |-> row]
Instruments ==
    {Instrument(r, NoRow) : r \in Responses}
    \cup {Instrument(SnapGood, Row(v)) : v \in {Num(5000), Num(0), None}}
    \cup {Instrument(SnapNegativeEps, Row(Num(5000)))}

----------------------------------------------------------------------------
(* get_market_data with its st.cache_data(ttl=CACHE_TTL) memoization *)

NoData == [k |-> "none"]
Data(hist, info) == [k |-> "tuple", hist |-> hist, info |-> info]

\* the function body, lines 37-44
GetMarketData(resp) ==
    IF resp.kind = "ok" THEN Data(resp.hist, resp.info) ELSE NoData

NoEntry == [k |-> "absent"]
Entry(value, time) == [k |-> "entry", value |-> value, time |-> time]

Fresh_DataOnly(entry, clock) ==
    /\ entry.k = "entry"
    /\ entry.value.k = "tuple"
    /\ clock - entry.time < CACHE_TTL

\* an entry answers a call while it is younger than the TTL
Fresh(entry, clock) == entry.k = "entry" /\ clock - entry.time < CACHE_TTL

CachedGetMarketData_NoneNotStored(c, t, clock, resp) ==
    IF Fresh(c[t], clock)
    THEN [value |-> c[t].value, cache |-> c, called |-> FALSE]
    ELSE LET v == GetMarketData(resp)
         IN  [value |-> v,
              cache |-> IF v.k = "none" THEN [c EXCEPT ![t] = NoEntry]
                        ELSE [c EXCEPT ![t] = Entry(v, clock)],
              called |-> TRUE]

\* One call get_market_data(t) against cache c at time clock; resp is what
\* the provider does if it is called.  Whatever the body returns, None
\* included, is stored.
CachedGetMarketData(c, t, clock, resp) ==
    IF Fresh(c[t], clock)
    THEN [value |-> c[t].value, cache |-> c, called |-> FALSE]
    ELSE LET v == GetMarketData(resp)
         IN  [value |-> v, cache |-> [c EXCEPT ![t] = Entry(v, clock)],
              called |-> TRUE]

\* st.cache_data.clear()
ClearCache == [t \in Tickers |-> NoEntry]

\* get_fair_value_from_db: the row, or None when there is none (or the
\* query raises)
GetFairValueFromDb(db, t) == db[t]

----------------------------------------------------------------------------
(* The script run, lines 226-307 *)

\* the fetch loop, lines 240-244, over tickers 1..n: the cache after it, the
\* tickers for which the provider was called, and market_data_map
FetchStored(before, r, t) ==
    [cache |-> r.cache,
     called |-> IF r.called THEN before.called \cup {t} ELSE before.called,
     \* if data: market_data_map[t] = data
     map |-> IF r.value.k = "tuple"
             THEN [u \in DOMAIN before.map \cup {t} |->
                      IF u = t THEN r.value ELSE before.map[u]]
             ELSE before.map]

\* one iteration of the fetch loop, for ticker t
FetchStep(before, clock, prov, t) ==
    FetchStored(before, CachedGetMarketData(before.cache, t, clock, prov[t]), t)

RECURSIVE FetchLoop(_, _, _, _)
FetchLoop(c, clock, prov, n) ==
    IF n = 0 THEN [cache |-> c, called |-> {}, map |-> <<>>]
    ELSE FetchStep(FetchLoop(c, clock, prov, n - 1), clock, prov, n)

\* eps = info.get('trailingEps') or info.get('forwardEps') or 1.0
SelectEps(info) == Or(Or(info.trailingEps, info.forwardEps), Num(100))

\* price_usd = info.get('currentPrice') or hist['Close'].iloc[-1]
SelectPrice(hist, info) == Or(info.currentPrice, Num(LastClose(hist.rows)))

\* lines 265-270: the computed fair value, replaced by the stored row's
\* fair_value_usd when get_fair_value_from_db returns a row
ResolveFairValue(dcf_result, db_fv) ==
    IF db_fv.k = "row"
    THEN DictGet(db_fv.data, "fair_value_usd", Num(DictGet(dcf_result, "fv", 0)))
    ELSE Num(DictGet(dcf_result, "fv", 0))

SkipFairValue_NegativeOnly(fv_usd) == fv_usd < 0

\* line 272
SkipFairValue(fv_usd) == fv_usd <= 0

\* lines 283-304
ResultRow(t, eps, dcf_result, price_usd, fv_usd, tech_metrics, s) ==
    [Ticker |-> t,
     Kurs_EUR |-> price_usd,
     Fair_Value_EUR |-> fv_usd,
     Upside_PCT |-> [num |-> fv_usd - price_usd, den |-> price_usd],
     RSI |-> tech_metrics.rsi,
     Signal |-> s.signal,
     _price_usd |-> price_usd,
     _fv_usd |-> fv_usd,
     _eps |-> eps,
     _pv_10y |-> DictGet(dcf_result, "pv_10y", 0),
     _pv_terminal |-> DictGet(dcf_result, "pv_terminal", 0),
     _eps_year10 |-> DictGet(dcf_result, "eps_year10", 0),
     _terminal_multiple |-> DictGet(dcf_result, "terminal_multiple", 0),
     _corr_ath |-> tech_metrics.corr_ath,
     _avg_dd |-> tech_metrics.avg_dd,
     _trend |-> tech_metrics.trend,
     _vol |-> tech_metrics.volume,
     _rank |-> s.rank,
     _ema200 |-> tech_metrics.ema200,
     _ath |-> tech_metrics.ath]

\* lines 279-304, with the technical metrics computed
EvalSignal(t, eps, dcf_result, price_usd, fv_usd, tech_metrics, mos_pct) ==
    IF Raised(tech_metrics) THEN tech_metrics
    ELSE [kind |-> "append",
          row |-> ResultRow(t, eps, dcf_result, price_usd, fv_usd, tech_metrics,
                            GenerateSignal(price_usd, fv_usd, tech_metrics.rsi,
                                           mos_pct))]

\* lines 272-304, with price_usd and fv_usd selected.  Comparing or dividing
\* a string or None with a number raises TypeError.
EvalFairValue(t, hist, eps, dcf_result, price_usd, fv_usd, mos_pct) ==
    IF fv_usd.k # "num" THEN Raise("TypeError")
    ELSE IF SkipFairValue(fv_usd.v) THEN [kind |-> "continue"]
    ELSE IF price_usd.k # "num" THEN Raise("TypeError")
    ELSE EvalSignal(t, eps, dcf_result, price_usd.v, fv_usd.v,
                    CalculateTechnicalMetrics(hist, price_usd.v), mos_pct)

\* lines 264-304, with the valuation computed
EvalValuation(t, data, db_fv, eps, dcf_result, mos_pct) ==
    EvalFairValue(t, data.hist, eps, dcf_result,
                  SelectPrice(data.hist, data.info),
                  ResolveFairValue(dcf_result, db_fv), mos_pct)

\* lines 262-304, with eps selected; eps <= 0 at line 105 raises TypeError
\* for a string
EvalEps(t, data, db_fv, eps, growth_rate, mos_pct) ==
    IF eps.k # "num" THEN Raise("TypeError")
    ELSE EvalValuation(t, data, db_fv, eps.v,
                       CalculateDcfFairValueEps(eps.v, growth_rate), mos_pct)

\* One iteration of the loop of lines 255-304 for a ticker that is in
\* market_data_map: the iteration continues, raises, or appends a row.
EvalTicker(t, data, db_fv, growth_rate, mos_pct) ==
    EvalEps(t, data, db_fv, SelectEps(data.info), growth_rate, mos_pct)

EvalCollect(before, r) ==
    IF Raised(r) THEN [raised |-> TRUE, all_results |-> <<>>]
    ELSE IF r.kind = "continue" THEN before
    ELSE [before EXCEPT !.all_results = Append(@, r.row)]

\* one iteration for ticker t after the iterations that gave before
EvalStep(before, map, db, growth_rate, mos_pct, t) ==
    IF before.raised \/ t \notin DOMAIN map THEN before
    ELSE EvalCollect(before,
                     EvalTicker(t, map[t], GetFairValueFromDb(db, t),
                                growth_rate, mos_pct))

\* the evaluation loop over tickers 1..n: all_results, or the exception that
\* left the loop
RECURSIVE EvalLoop(_, _, _, _, _)
EvalLoop(map, db, growth_rate, mos_pct, n) ==
    IF n = 0 THEN [raised |-> FALSE, all_results |-> <<>>]
    ELSE EvalStep(EvalLoop(map, db, growth_rate, mos_pct, n - 1),
                  map, db, growth_rate, mos_pct, n)

\* a.num / a.den > b.num / b.den, for positive denominators
FracGT(a, b) == a.num * b.den > b.num * a.den

Precedes_UpsideAscending(a, b) ==
    \/ a._rank < b._rank
    \/ a._rank = b._rank /\ FracGT(b.Upside_PCT, a.Upside_PCT)

\* the sort order of line 307: _rank ascending, then Upside_PCT descending
Precedes(a, b) ==
    \/ a._rank < b._rank
    \/ a._rank = b._rank /\ FracGT(a.Upside_PCT, b.Upside_PCT)

\* x put into the sorted sequence s behind every row it does not precede
RECURSIVE Insert(_, _)
Insert(s, x) ==
    IF s = <<>> THEN <<x>>
    ELSE IF Precedes(x, s[1]) THEN <<x>> \o s
    ELSE <<s[1]>> \o Insert(Tail(s), x)

\* DataFrame.sort_values on several columns, which is a stable sort
RECURSIVE SortValues(_)
SortValues(rows) ==
    IF rows = <<>> THEN <<>>
    ELSE Insert(SortValues(SubSeq(rows, 1, Len(rows) - 1)), rows[Len(rows)])

NotRun == [status |-> "not run", df |-> <<>>, loaded |-> {}]

\* What a script run leaves on the page, given market_data_map:
\*   "no data"    line 249, nothing was loaded
\*   "exception"  line 532, the outer handler
\*   "no valid"   line 529, no instrument was appended
\*   "ranked"     line 319, the ranking df is shown
Shown(loop, loaded) ==
    IF loop.raised
    THEN [status |-> "exception", df |-> <<>>, loaded |-> loaded]
    ELSE IF loop.all_results = <<>>
    THEN [status |-> "no valid", df |-> <<>>, loaded |-> loaded]
    ELSE [status |-> "ranked", df |-> SortValues(loop.all_results),
          loaded |-> loaded]

Evaluate(map, db, growth_rate, mos_pct) ==
    IF DOMAIN map = {} THEN [status |-> "no data", df |-> <<>>, loaded |-> {}]
    ELSE Shown(EvalLoop(map, db, growth_rate, mos_pct, NumTickers), DOMAIN map)

----------------------------------------------------------------------------
(* Handlers *)

\* lastFetch of a ticker for which the cache holds no call since the last clear
Never == -1

\* One execution of the script from cache c and table db with the widget
\* values mos_pct and growth_rate; since is lastFetch as it stands when the
\* fetch loop starts.
RunScript(c, db, since, mos_pct, growth_rate, op) ==
    \E f \in {FetchLoop(c, now, provider, NumTickers)} :
    \E shown \in {Evaluate(f.map, db, growth_rate, mos_pct)} :
        /\ cache' = f.cache
        /\ contacted' = f.called
        /\ lastFetch' = [t \in Tickers |->
                            IF t \in f.called THEN now ELSE since[t]]
        /\ run' = [status |-> shown.status, df |-> shown.df,
                   loaded |-> shown.loaded,
                   mos_pct |-> mos_pct, growth_rate |-> growth_rate]
        /\ overrides' = db
        /\ lastOp' = op
        /\ UNCHANGED <<now, provider, sig, dcf, tech>>

\* The page is loaded, or the slider or the scenario box is changed:
\* the script runs with the widget values.
Rerun(mos_pct, growth_rate) ==
    RunScript(cache, overrides, lastFetch, mos_pct, growth_rate, "rerun")

\* The page is loaded again with the widgets as they are.
Reload == Rerun(run.mos_pct, run.growth_rate)

\* Button "Daten aktualisieren", lines 211-213: st.cache_data.clear() and
\* st.rerun().
Refresh ==
    RunScript(ClearCache, overrides, [t \in Tickers |-> Never],
              run.mos_pct, run.growth_rate, "refresh")

RankedTickers == {run.df[i].Ticker : i \in 1..Len(run.df)}

\* Button "Speichern" of the fair value editor, lines 359-364, for the
\* selected ticker of the ranking: save_fair_value_to_db inserts or updates
\* the row, then st.cache_data.clear() and st.rerun().
SaveFairValue(selected, new_fv_usd) ==
    /\ run.status = "ranked"
    /\ selected \in RankedTickers
    /\ RunScript(ClearCache,
                 [overrides EXCEPT ![selected] = Row(Num(new_fv_usd))],
                 [t \in Tickers |-> Never],
                 run.mos_pct, run.growth_rate, "save")

\* Time passes.
Tick ==
    /\ now + TickSeconds <= MaxTicks * TickSeconds
    /\ now' = now + TickSeconds
    /\ lastOp' = "env"
    /\ UNCHANGED <<cache, overrides, provider, run, contacted, lastFetch,
                   sig, dcf, tech>>

\* The provider starts to answer differently for a ticker.
ProviderChange(t, resp) ==
    /\ resp # provider[t]
    /\ provider' = [provider EXCEPT ![t] = resp]
    /\ lastOp' = "env"
    /\ UNCHANGED <<cache, now, overrides, run, contacted, lastFetch,
                   sig, dcf, tech>>

----------------------------------------------------------------------------
(* Calls of the pure functions *)

NotCalled == [k |-> "not called"]

\* generate_signal is called with the inputs of sig and margin mos_pct
SignalCall(mos_pct) ==
    /\ mos_pct \notin DOMAIN sig.out
    /\ sig' = [sig EXCEPT !.out =
                  [m \in DOMAIN sig.out \cup {mos_pct} |->
                      IF m = mos_pct
                      THEN GenerateSignal(sig.price, sig.fv, sig.rsi, mos_pct)
                      ELSE sig.out[m]]]
    /\ UNCHANGED <<cache, now, overrides, provider, run, contacted, lastFetch,
                   lastOp, dcf, tech>>

DcfCall ==
    /\ dcf.ret = NotCalled
    /\ dcf' = [dcf EXCEPT !.ret = CalculateDcfFairValueEps(dcf.eps, dcf.growth_rate)]
    /\ UNCHANGED <<cache, now, overrides, provider, run, contacted, lastFetch,
                   lastOp, sig, tech>>

TechCall ==
    /\ tech.ret = NotCalled
    /\ tech' = [tech EXCEPT !.ret = CalculateTechnicalMetrics(tech.hist, tech.price_usd)]
    /\ UNCHANGED <<cache, now, overrides, provider, run, contacted, lastFetch,
                   lastOp, sig, dcf>>

----------------------------------------------------------------------------
(* Specifications *)

\* a session before the first script run: widgets at their defaults
\* (slider value=15, scenario index=1)
InitSession ==
    /\ cache = ClearCache
    /\ now = 0
    /\ run = [status |-> NotRun.status, df |-> NotRun.df, loaded |-> NotRun.loaded,
              mos_pct |-> 15, growth_rate |-> 1000]
    /\ contacted = {}
    /\ lastFetch = [t \in Tickers |-> Never]
    /\ lastOp = "init"

NoSession ==
    /\ InitSession
    /\ overrides = [t \in Tickers |-> NoRow]
    /\ provider = [t \in Tickers |-> ProviderError]

NoSignal == sig = [price |-> 0, fv |-> 0, rsi |-> 0, out |-> <<>>]
NoDcf == dcf = [eps |-> 0, growth_rate |-> 0, ret |-> NotCalled]
NoTech == tech = [hist |-> HistShort, price_usd |-> 0, ret |-> NotCalled]

\* Evaluation: script runs over every catalogue of instruments and stored
\* rows.
Init ==
    /\ InitSession
    /\ \E inst \in [Tickers -> Instruments] :
          /\ provider = [t \in Tickers |-> inst[t].resp]
          /\ overrides = [t \in Tickers |-> inst[t].row]
    /\ NoSignal /\ NoDcf /\ NoTech

Next ==
    \/ \E m \in MosChoices, g \in GrowthChoices : Rerun(m, g)
    \/ Refresh
    \/ \E t \in Tickers, v \in {5000} : SaveFairValue(t, v)

Spec == Init /\ [][Next]_vars

\* The cache: a provider that fails and recovers, the clock, reloads and
\* refreshes.
InitCache ==
    /\ InitSession
    /\ overrides = [t \in Tickers |-> NoRow]
    /\ provider \in [Tickers -> CacheResponses]
    /\ NoSignal /\ NoDcf /\ NoTech

NextCache ==
    \/ Reload
    \/ Refresh
    \/ Tick
    \/ \E t \in Tickers, r \in CacheResponses : ProviderChange(t, r)

SpecCache == InitCache /\ [][NextCache]_vars

\* generate_signal on the prices, fair values and RSI values that reach it:
\* line 272 lets only positive fair values through.
InitSignal ==
    /\ NoSession /\ NoDcf /\ NoTech
    /\ sig \in [price : {70, 80, 85, 90, 100, 110, 115, 120, 130},
                fv : {50, 100, 120}, rsi : {35, 39, 40, 55}, out : {<<>>}]

SignalMargins == {1, 10, 15, 30}

NextSignal == \E m \in SignalMargins : SignalCall(m)

SpecSignal == InitSignal /\ [][NextSignal]_vars

\* calculate_dcf_fair_value_eps on EPS values around 0 and the growth rates
\* of growth_map
InitDcf ==
    /\ NoSession /\ NoSignal /\ NoTech
    /\ dcf \in [eps : {-200, -1, 0, 1, 50, 100} \cup {100 * e : e \in 2..20},
                growth_rate : GrowthChoices, ret : {NotCalled}]

SpecDcf == InitDcf /\ [][DcfCall]_vars

\* calculate_technical_metrics on series around EMA_LENGTH rows
TechHists ==
    {[rows |-> <<Seg(n, h, c, 10)>>, rsi |-> 50, ema200 |-> e] :
        n \in {RSI_LENGTH - 1, RSI_LENGTH, EMA_LENGTH - 1, EMA_LENGTH,
               EMA_LENGTH + 1},
        h \in {10000, 12000}, c \in {9000, 10000}, e \in {9500, 10500}}

InitTech ==
    /\ NoSession /\ NoSignal /\ NoDcf
    /\ tech \in [hist : TechHists, price_usd : {9000, 10000, 11000, 13000},
                 ret : {NotCalled}]

SpecTech == InitTech /\ [][TechCall]_vars

----------------------------------------------------------------------------
(* Properties *)

\* the inputs of the latest script run, as the state holds them
LoadedData(t) == cache[t].value
Outcome(r) == IF Raised(r) THEN "raise" ELSE r.kind
RunCompleted == run.status \in {"ranked", "no valid"}
RowOf(t) == run.df[CHOOSE i \in 1..Len(run.df) : run.df[i].Ticker = t]
IsPositive(x) == x.k = "num" /\ x.v > 0
HasPositiveOverride(t) ==
    overrides[t].k = "row" /\ IsPositive(overrides[t].data.fair_value_usd)
ComputedFairValue(t) ==
    CalculateDcfFairValueEps(SelectEps(LoadedData(t).info).v, run.growth_rate).fv

\* C1: generate_signal returns (KAUF, 1) exactly when price <= fv * (1 - m)
\* and RSI < 40, else (BEOBACHTEN, 2) exactly when price <= fv * (1 + m),
\* else (WARTEN, 3); price 80, fair value 100, m = 10 % give KAUF for RSI 35,
\* BEOBACHTEN for RSI 55, and price 130 gives WARTEN.
C1_SignalContract ==
    \A m \in DOMAIN sig.out :
        LET o == sig.out[m]
            buy == 100 * (sig.fv - sig.price) >= m * sig.fv /\ sig.rsi < 40
            watch == 100 * (sig.price - sig.fv) <= m * sig.fv
        IN  /\ (o = [signal |-> "KAUF", rank |-> 1]) <=> buy
            /\ (o = [signal |-> "BEOBACHTEN", rank |-> 2]) <=> (~buy /\ watch)
            /\ (o = [signal |-> "WARTEN", rank |-> 3]) <=> (~buy /\ ~watch)
            /\ (m = 10 /\ sig.fv = 100 /\ sig.price = 80 /\ sig.rsi = 35)
                   => o.signal = "KAUF"
            /\ (m = 10 /\ sig.fv = 100 /\ sig.price = 80 /\ sig.rsi = 55)
                   => o.signal = "BEOBACHTEN"
            /\ (m = 10 /\ sig.fv = 100 /\ sig.price = 130) => o.signal = "WARTEN"

\* the three scenarios have been computed: some inputs gave each category
C1_Witness ==
    /\ 10 \in DOMAIN sig.out
    /\ sig.fv = 100 /\ sig.price = 80 /\ sig.rsi = 55
    /\ sig.out[10] = [signal |-> "BEOBACHTEN", rank |-> 2]
    /\ 30 \in DOMAIN sig.out

\* C2: a failure confined to one instrument only skips that instrument: the
\* run never ends in the outer exception handler, and every instrument whose
\* own data evaluates to a row is in the ranking.
C2_FailureIsolated ==
    /\ run.status # "exception"
    /\ run.status # "not run" =>
           \A t \in Tickers :
               (/\ LoadedData(t).k = "tuple"
                /\ Outcome(EvalTicker(t, LoadedData(t), overrides[t],
                                      run.growth_rate, run.mos_pct)) = "append")
               => t \in RankedTickers

\* C3: an instrument with a positive stored fair value is evaluated with
\* it; one with no stored row, or with a stored value that is not positive,
\* is evaluated with the computed fair value.
C3_OverrideOrComputed ==
    RunCompleted =>
        \A t \in run.loaded :
            IF HasPositiveOverride(t)
            THEN /\ t \in RankedTickers
                 /\ RowOf(t)._fv_usd = overrides[t].data.fair_value_usd.v
            ELSE ComputedFairValue(t) > 0 =>
                     /\ t \in RankedTickers
                     /\ RowOf(t)._fv_usd = ComputedFairValue(t)

C5_CacheTtl ==
    [][/\ lastOp' = "rerun" =>
              \A t \in Tickers :
                  t \in contacted' <=>
                      (lastFetch[t] = Never \/ now - lastFetch[t] >= CACHE_TTL)
       /\ lastOp' \in {"refresh", "save"} => contacted' = Tickers]_vars

\* a reload within the TTL of every entry, which called the provider for
\* no ticker
C5_Witness ==
    /\ lastOp = "rerun"
    /\ contacted = {}
    /\ \A t \in Tickers :
           lastFetch[t] # Never /\ now - lastFetch[t] \in 1..(CACHE_TTL - 1)

\* C6: the ranking holds every appended instrument once, ordered by rank
\* ascending, then upside descending, then position in the watchlist.
C6_RankedOrder ==
    /\ run.status # "ranked" => run.df = <<>>
    /\ \A i, j \in 1..Len(run.df) :
           i < j =>
               LET a == run.df[i]
                   b == run.df[j]
               IN  \/ a._rank < b._rank
                   \/ /\ a._rank = b._rank
                      /\ a.Upside_PCT.num * b.Upside_PCT.den
                             > b.Upside_PCT.num * a.Upside_PCT.den
                   \/ /\ a._rank = b._rank
                      /\ a.Upside_PCT.num * b.Upside_PCT.den
                             = b.Upside_PCT.num * a.Upside_PCT.den
                      /\ a.Ticker < b.Ticker

\* a ranking with two instruments equal in rank and upside
C6_Witness ==
    /\ run.status = "ranked"
    /\ \E i, j \in 1..Len(run.df) :
           /\ i < j
           /\ run.df[i]._rank = run.df[j]._rank
           /\ run.df[i].Upside_PCT = run.df[j].Upside_PCT

\* C7: for the same price, fair value and RSI and margins m2 < m1, WARTEN at
\* m1 excludes KAUF at m2 and KAUF at m1 excludes WARTEN at m2.
C7_MarginMonotone ==
    \A m1, m2 \in DOMAIN sig.out :
        m2 < m1 =>
            /\ sig.out[m1].signal = "WARTEN" => sig.out[m2].signal # "KAUF"
            /\ sig.out[m1].signal = "KAUF" => sig.out[m2].signal # "WARTEN"

\* KAUF at a margin and at a smaller one, while a larger margin gives
\* BEOBACHTEN
C7_Witness ==
    \E m1, m2, m3 \in DOMAIN sig.out :
        /\ m3 < m2 /\ m2 < m1
        /\ sig.out[m1].signal = "BEOBACHTEN"
        /\ sig.out[m2].signal = "KAUF"
        /\ sig.out[m3].signal = "KAUF"

\* C8: every ranked instrument's correction from the all-time high and its
\* average drawdown are <= 0.
C8_CorrectionNotPositive ==
    \A i \in 1..Len(run.df) :
        run.df[i]._corr_ath <= 0 /\ run.df[i]._avg_dd <= 0

\* C9: with positive EPS the fixed-multiple fallback is used exactly when
\* WACC <= TERMINAL_GROWTH; for the growth rates 8 %, 10 % and 12 % the result
\* is the ten-year projection plus the discounted terminal value.
C9_FallbackOnlyBelowTerminalGrowth ==
    ("fv" \in DOMAIN dcf.ret /\ dcf.eps > 0) =>
        /\ (dcf.ret.method = "Fallback") <=> (WACC <= TERMINAL_GROWTH)
        /\ dcf.growth_rate \in {800, 1000, 1200} =>
               /\ dcf.ret.method = "DCF 10-Year EPS + Terminal"
               /\ dcf.ret.fv = dcf.ret.pv_10y + dcf.ret.pv_terminal

\* C10: the trend is N/A, with no moving average, exactly when the series
\* has fewer than 200 rows; with 200 or more it is Bullish when the price is
\* above the moving average and Bearish otherwise.
C10_TrendUnknownBelow200 ==
    "trend" \in DOMAIN tech.ret =>
        /\ (tech.ret.trend = "N/A" /\ tech.ret.ema200 = None)
               <=> HistLen(tech.hist.rows) < EMA_LENGTH
        /\ HistLen(tech.hist.rows) >= EMA_LENGTH =>
               tech.ret.trend = IF tech.price_usd > tech.hist.ema200
                                THEN "Bullish" ELSE "Bearish"

\* the cache holds, for ticker t, a None that get_market_data returned less
\* than CACHE_TTL ago
FailureCached(t) ==
    /\ cache[t].k = "entry"
    /\ cache[t].value.k = "none"
    /\ now - cache[t].time < CACHE_TTL

\* C11: while the cache holds a failed fetch of a ticker that is younger
\* than the TTL, a script run without a cache clear does not call the
\* provider for the ticker and leaves it out of the loaded data, whatever
\* the provider would answer now; the ticker is loaded again only by a run
\* after a cache clear or after the entry has expired.
C11_FailureMemoized ==
    [][\A t \in Tickers :
           /\ (lastOp' = "rerun" /\ FailureCached(t)) =>
                  /\ t \notin contacted'
                  /\ t \notin run'.loaded
                  /\ cache'[t] = cache[t]
           /\ (cache[t].k = "entry" /\ cache[t].value.k = "none"
                   /\ t \in run'.loaded) =>
                  \/ lastOp' \in {"refresh", "save"}
                  \/ now - cache[t].time >= CACHE_TTL]_vars

\* a reload, later than the failed call and within its TTL, that left out a
\* ticker for which the provider has data again
C11_Witness ==
    /\ lastOp = "rerun"
    /\ \E t \in Tickers :
           /\ FailureCached(t)
           /\ cache[t].time < now
           /\ provider[t].kind = "ok"
           /\ t \notin contacted
           /\ t \notin run.loaded

====
